---- MODULE Spec2Model ----
(***************************************************************************)
(* State machine of the ApiDashboardV3 component and its useDashboard      *)
(* fetch hook (components/ApiDashboardV3.tsx).  ApiDashboard.tsx uses the  *)
(* same hook and the same window buttons, without pagination and rows.     *)
(*                                                                         *)
(* One action is one task of the UI event loop: a click handler, a change  *)
(* of the props by the parent, or the settling of a promise of a fetch,    *)
(* together with the re-render and the effects the task causes.            *)
(***************************************************************************)
EXTENDS Integers, Sequences, FiniteSets, TLC

VARIABLES
    apiUrl,          \* prop
    pageSize,        \* prop
    mounted,         \* the component instance is mounted
    activeWindow,    \* useState("24h")
    alertDismissed,  \* useState(false)
    page,            \* useState(1)
    expandedPath,    \* useState<string | null>(null)
    data,            \* useDashboard: useState<DashboardData | null>(null)
    loading,         \* useDashboard: useState(true)
    error,           \* useDashboard: useState<string | null>(null)
    fetches,         \* requests in flight, each with the `cancelled` flag of its effect closure
    requested,       \* the URL passed to fetch() by the latest run of the fetch effect
    nextId,          \* number of requests issued so far
    dataSrc,         \* history: id of the request whose payload is held in data (0: none)
    atStart,         \* history: data, and whether error was set, when the latest request was issued
    settledAs,       \* history: "pending", "resolved" or "rejected" for the latest request
    widget,          \* the props of the chart or table part to render, [kind, arg]
    drawn,           \* what it returned, null before it has rendered
    lastEv           \* history: the task that ran last

vars == <<apiUrl, pageSize, mounted, activeWindow, alertDismissed, page, expandedPath,
          data, loading, error, fetches, requested, nextId, dataSrc, atStart, settledAs,
          widget, drawn, lastEv>>

\* ---------------------------------------------------------------- bounds
MaxFetches == 3
MaxEndpoints == 3
MaxShortLen == 3      \* series of every combination of values up to this length
MaxSeriesLen == 12    \* series of fixed values up to this length
MaxCount == 18        \* endpoints of a paginated list
MaxPageSize == 8      \* pageSize of a paginated list
MaxSlices == 3        \* slices of a donut
MaxBuckets == 2       \* buckets of a histogram

\* ---------------------------------------------------------------- values
\* `T | null` is a sequence of length at most one.
None == <<>>
Some(x) == <<x>>

Min(a, b) == IF a < b THEN a ELSE b
Max(a, b) == IF a > b THEN a ELSE b

\* The window buttons, each window as its characters.
Windows == { <<"1", "h">>, <<"6", "h">>, <<"2", "4", "h">>, <<"7", "d">>, <<"3", "0", "d">> }
InitialWindow_1h == <<"1", "h">>
InitialWindow == <<"2", "4", "h">>
DefaultPageSize == 7

InitialApiUrl == "/api/dashboard"
ApiUrls == { InitialApiUrl, "/api/other" }
PageSizes == { 1, DefaultPageSize }

\* encodeURIComponent leaves A-Z a-z 0-9 - _ . ! ~ * ' ( ) alone and
\* percent-encodes the rest.
Unreserved == { "0", "1", "2", "3", "4", "5", "6", "7", "8", "9", "d", "h",
                "-", "_", ".", "!", "~", "*", "'", "(", ")" }
EscapeOf(c) ==
    CASE c = " " -> <<"%", "2", "0">>
      [] c = "&" -> <<"%", "2", "6">>
      [] c = "=" -> <<"%", "3", "D">>
      [] c = "?" -> <<"%", "3", "F">>
      [] c = "/" -> <<"%", "2", "F">>
      [] OTHER   -> <<"%", "x", "x">>
RECURSIVE encodeURIComponent(_)
encodeURIComponent(s) ==
    IF s = <<>> THEN <<>>
    ELSE (IF Head(s) \in Unreserved THEN <<Head(s)>> ELSE EscapeOf(Head(s)))
         \o encodeURIComponent(Tail(s))

\* `${apiUrl}?window=${encodeURIComponent(timeWindow)}`
RequestUrl(u, w) == <<u, "?window=">> \o encodeURIComponent(w)

\* Payloads the server may answer with: n endpoints, an optional alert.
Endpoint(i) == [method |-> "GET", path |-> <<"/v2/ep", i>>]
Payload(n, a) == [endpoints |-> [i \in 1..n |-> Endpoint(i)], alert |-> a]
AlertText == "Rate limit warning"
Payloads == { Payload(0, None), Payload(MaxEndpoints, Some(AlertText)) }

\* Failure messages: `HTTP ${r.status}`, the TypeError of fetch, the SyntaxError of r.json().
HttpStatuses == { 500 }
HttpError(status) == <<"HTTP ", status>>
NetworkError == <<"Failed to fetch">>
ParseError == <<"Unexpected token">>
FailureMessages == { HttpError(status) : status \in HttpStatuses } \cup { NetworkError, ParseError }

\* ---------------------------------------------------------------- derived render values
Endpoints(d) == IF d = None THEN <<>> ELSE d[1].endpoints

Ceil(n, ps) == IF n % ps = 0 THEN n \div ps ELSE (n \div ps) + 1
TotalPages_Floor(n, ps) == Max(1, n \div ps)
\* Math.max(1, Math.ceil(endpoints.length / pageSize))
TotalPages(n, ps) == Max(1, Ceil(n, ps))
totalPages == TotalPages(Len(Endpoints(data)), pageSize)

Slice_Overlaps(s, a, b) == SubSeq(s, Min(a, Len(s)) + 1, Min(b + 1, Len(s)))
\* Array.prototype.slice(a, b) for 0 <= a, b
Slice(s, a, b) == SubSeq(s, Min(a, Len(s)) + 1, Min(b, Len(s)))
VisibleEndpoints(d, p, ps) == Slice(Endpoints(d), (p - 1) * ps, p * ps)
visibleEndpoints == VisibleEndpoints(data, page, pageSize)

HasAlert(d) == d # None /\ d[1].alert # None

\* ---------------------------------------------------------------- hook and effects
\* No chart is being rendered.
NoWidget == [kind |-> "none", arg |-> None]

\* The component state the handlers and effects update, as one record.
St == [alertDismissed |-> alertDismissed, page |-> page, expandedPath |-> expandedPath,
       data |-> data, loading |-> loading, error |-> error,
       fetches |-> fetches, requested |-> requested, nextId |-> nextId, dataSrc |-> dataSrc,
       settledAs |-> settledAs]

Apply(st) ==
    /\ alertDismissed' = st.alertDismissed
    /\ page' = st.page
    /\ expandedPath' = st.expandedPath
    /\ data' = st.data
    /\ loading' = st.loading
    /\ error' = st.error
    /\ fetches' = st.fetches
    /\ requested' = st.requested
    /\ nextId' = st.nextId
    /\ dataSrc' = st.dataSrc
    /\ settledAs' = IF st.nextId # nextId THEN "pending" ELSE st.settledAs
    /\ atStart' = IF st.nextId # nextId THEN [data |-> data, failed |-> error # None] ELSE atStart
    /\ UNCHANGED <<widget, drawn>>

\* The values a render closes over, by dependency name.
Render(u, w, d) == [apiUrl |-> u, timeWindow |-> w, activeWindow |-> w, data |-> d]
FetchDeps_UrlOnly == { "apiUrl" }
FetchDeps == { "apiUrl", "timeWindow" }
ResetDeps_Data == { "activeWindow", "data" }
ResetDeps_Url == { "activeWindow", "apiUrl" }
ResetDeps == { "activeWindow" }
DepsChanged(deps, old, new) == \E k \in deps : old[k] # new[k]

Cleanup_Noop(fs) == fs
Cleanup_Flips(fs) == { [f EXCEPT !.cancelled = ~f.cancelled] : f \in fs }
\* return () => { cancelled = true; }
Cleanup(fs) == { [f EXCEPT !.cancelled = TRUE] : f \in fs }

FetchEffect_KeepsError(st, r) ==
    [st EXCEPT !.loading = TRUE,
               !.fetches = Cleanup(st.fetches) \cup { [id |-> st.nextId + 1, cancelled |-> FALSE] },
               !.requested = RequestUrl(r.apiUrl, r.timeWindow),
               !.nextId = st.nextId + 1]
FetchEffect_KeepsLoading(st, r) ==
    [st EXCEPT !.error = None,
               !.fetches = Cleanup(st.fetches) \cup { [id |-> st.nextId + 1, cancelled |-> FALSE] },
               !.requested = RequestUrl(r.apiUrl, r.timeWindow),
               !.nextId = st.nextId + 1]
FetchEffect_DropsData(st, r) ==
    [st EXCEPT !.loading = TRUE,
               !.error = None,
               !.data = None,
               !.fetches = Cleanup(st.fetches) \cup { [id |-> st.nextId + 1, cancelled |-> FALSE] },
               !.requested = RequestUrl(r.apiUrl, r.timeWindow),
               !.nextId = st.nextId + 1]
\* The body of the fetch effect, after the cleanup of the previous run.
FetchEffect(st, r) ==
    [st EXCEPT !.loading = TRUE,
               !.error = None,
               !.fetches = Cleanup(st.fetches) \cup { [id |-> st.nextId + 1, cancelled |-> FALSE] },
               !.requested = RequestUrl(r.apiUrl, r.timeWindow),
               !.nextId = st.nextId + 1]

ResetEffect_KeepsAlert(st) == [st EXCEPT !.page = 1]
ResetEffect_ClearsRow(st) == [st EXCEPT !.page = 1, !.alertDismissed = FALSE, !.expandedPath = None]
\* useEffect(() => { setPage(1); setAlertDismissed(false); }, [activeWindow])
ResetEffect(st) == [st EXCEPT !.page = 1, !.alertDismissed = FALSE]

\* The effects of the commit that follows a re-render from `old` to `new`.
RunEffects(st, old, new) ==
    LET s1 == IF DepsChanged(FetchDeps, old, new) THEN FetchEffect(st, new) ELSE st
    IN  IF DepsChanged(ResetDeps, old, new) THEN ResetEffect(s1) ELSE s1

OnFulfilled_Unguarded(st, f, d) == [st EXCEPT !.data = Some(d), !.dataSrc = f.id]
\* The handlers of the promise chain.
OnFulfilled(st, f, d) ==
    IF f.cancelled THEN st ELSE [st EXCEPT !.data = Some(d), !.dataSrc = f.id]
OnRejected_ClearsData(st, f, msg) ==
    IF f.cancelled THEN st ELSE [st EXCEPT !.error = Some(msg), !.data = None]
OnRejected(st, f, msg) ==
    IF f.cancelled THEN st ELSE [st EXCEPT !.error = Some(msg)]
OnFinally_Unguarded(st, f) == [st EXCEPT !.loading = FALSE]
OnFinally(st, f) ==
    IF f.cancelled THEN st ELSE [st EXCEPT !.loading = FALSE]

\* The request f has settled with outcome o.
Settled(st, f, o) ==
    [st EXCEPT !.fetches = st.fetches \ {f},
               !.settledAs = IF f.id = st.nextId THEN o ELSE st.settledAs]

Now == Render(apiUrl, activeWindow, data)

Ev(kind, acted, dirty) == [kind |-> kind, acted |-> acted, dirty |-> dirty]

\* ---------------------------------------------------------------- initial state
\* The state after the mount: the initial useState values and the first run
\* of both effects.
AfterMount ==
    /\ apiUrl = InitialApiUrl
    /\ pageSize \in PageSizes
    /\ mounted = TRUE
    /\ activeWindow = InitialWindow
    /\ alertDismissed = FALSE
    /\ page = 1
    /\ expandedPath = None
    /\ data = None
    /\ loading = TRUE
    /\ error = None
    /\ fetches = { [id |-> 1, cancelled |-> FALSE] }
    /\ requested = RequestUrl(apiUrl, InitialWindow)
    /\ nextId = 1
    /\ dataSrc = 0
    /\ atStart = [data |-> None, failed |-> FALSE]
    /\ settledAs = "pending"
    /\ lastEv = Ev("mount", TRUE, FALSE)

Init ==
    /\ AfterMount
    /\ widget = NoWidget
    /\ drawn = None

\* ---------------------------------------------------------------- view events
\* onClick={() => setActiveWindow(w)}: a click on the active window is a
\* state update to the same value, so nothing re-renders and no effect runs.
SelectWindow(w) ==
    /\ mounted
    /\ w # activeWindow => nextId < MaxFetches
    /\ activeWindow' = w
    /\ Apply(RunEffects(St, Now, Render(apiUrl, w, data)))
    /\ lastEv' = Ev("selectWindow", w # activeWindow, page > 1 /\ alertDismissed)
    /\ UNCHANGED <<apiUrl, pageSize, mounted>>

\* onClick={() => setPage(p)} of the numbered buttons 1..totalPages
SelectPage(p) ==
    /\ mounted
    /\ p \in 1..totalPages
    /\ Apply([St EXCEPT !.page = p])
    /\ lastEv' = Ev("selectPage", TRUE, FALSE)
    /\ UNCHANGED <<apiUrl, pageSize, mounted, activeWindow>>

\* onClick={() => setPage((p) => Math.max(1, p - 1))}, disabled={page === 1}
PrevPage ==
    /\ mounted
    /\ page # 1
    /\ Apply([St EXCEPT !.page = Max(1, page - 1)])
    /\ lastEv' = Ev("prevPage", TRUE, FALSE)
    /\ UNCHANGED <<apiUrl, pageSize, mounted, activeWindow>>

\* onClick={() => setPage((p) => Math.min(totalPages, p + 1))}, disabled={page === totalPages}
NextPage ==
    /\ mounted
    /\ page # totalPages
    /\ Apply([St EXCEPT !.page = Min(totalPages, page + 1)])
    /\ lastEv' = Ev("nextPage", TRUE, FALSE)
    /\ UNCHANGED <<apiUrl, pageSize, mounted, activeWindow>>

toggleExpand_NeverCollapses(prev, path) == Some(path)
\* setExpandedPath((prev) => (prev === path ? null : path))
toggleExpand(prev, path) == IF prev = Some(path) THEN None ELSE Some(path)

\* onClick={() => toggleExpand(ep.path)} of a visible row; while loading the
\* rows are skeletons.
ToggleRow(i) ==
    /\ mounted
    /\ ~loading
    /\ i \in 1..Len(visibleEndpoints)
    /\ Apply([St EXCEPT !.expandedPath = toggleExpand(expandedPath, visibleEndpoints[i].path)])
    /\ lastEv' = Ev("toggleRow", TRUE, FALSE)
    /\ UNCHANGED <<apiUrl, pageSize, mounted, activeWindow>>

\* onClick={() => setAlertDismissed(true)} of the banner, which is rendered
\* when !alertDismissed && data?.alert
DismissAlert ==
    /\ mounted
    /\ ~alertDismissed
    /\ HasAlert(data)
    /\ Apply([St EXCEPT !.alertDismissed = TRUE])
    /\ lastEv' = Ev("dismissAlert", TRUE, FALSE)
    /\ UNCHANGED <<apiUrl, pageSize, mounted, activeWindow>>

\* ---------------------------------------------------------------- props
\* The parent re-renders the component with another apiUrl.
SetApiUrl(u) ==
    /\ mounted
    /\ u # apiUrl
    /\ nextId < MaxFetches
    /\ apiUrl' = u
    /\ Apply(RunEffects(St, Now, Render(u, activeWindow, data)))
    /\ lastEv' = Ev("setApiUrl", TRUE, FALSE)
    /\ UNCHANGED <<pageSize, mounted, activeWindow>>

\* The parent re-renders the component with another pageSize.
SetPageSize(ps) ==
    /\ mounted
    /\ ps # pageSize
    /\ pageSize' = ps
    /\ Apply(RunEffects(St, Now, Now))
    /\ lastEv' = Ev("setPageSize", TRUE, FALSE)
    /\ UNCHANGED <<apiUrl, mounted, activeWindow>>

Unmount_NoCleanup ==
    /\ mounted
    /\ mounted' = FALSE
    /\ Apply(St)
    /\ lastEv' = Ev("unmount", TRUE, FALSE)
    /\ UNCHANGED <<apiUrl, pageSize, activeWindow>>
\* The component is unmounted: the cleanup of the fetch effect runs.
Unmount ==
    /\ mounted
    /\ mounted' = FALSE
    /\ Apply([St EXCEPT !.fetches = Cleanup(fetches)])
    /\ lastEv' = Ev("unmount", TRUE, FALSE)
    /\ UNCHANGED <<apiUrl, pageSize, activeWindow>>

\* ---------------------------------------------------------------- promise chain
\* A state update of the chain re-renders the component; the effects run when
\* their dependencies changed.
Commit(st) == Apply(RunEffects(st, Now, Render(apiUrl, activeWindow, st.data)))

\* The response is ok and r.json() fulfils with the payload d: the chain runs
\* the data handler and then the finally handler.  (The first handler changes
\* no state of the component.)
Resolve(f, d) ==
    /\ f \in fetches
    /\ Commit(Settled(OnFinally(OnFulfilled(St, f, d), f), f, "resolved"))
    /\ lastEv' = Ev("resolve", mounted /\ f.id = nextId, FALSE)
    /\ UNCHANGED <<apiUrl, pageSize, mounted, activeWindow>>

\* fetch() rejects, or the first handler throws Error(`HTTP ${r.status}`), or
\* r.json() rejects: the chain skips the data handler and runs the catch
\* handler and then the finally handler.
Reject(f, msg) ==
    /\ f \in fetches
    /\ Commit(Settled(OnFinally(OnRejected(St, f, msg), f), f, "rejected"))
    /\ lastEv' = Ev("reject", mounted /\ f.id = nextId, FALSE)
    /\ UNCHANGED <<apiUrl, pageSize, mounted, activeWindow>>

\* ---------------------------------------------------------------- specification
Next ==
    \/ \E w \in Windows : SelectWindow(w)
    \/ \E p \in 1..totalPages : SelectPage(p)
    \/ PrevPage
    \/ NextPage
    \/ \E i \in 1..Len(visibleEndpoints) : ToggleRow(i)
    \/ DismissAlert
    \/ \E u \in ApiUrls : SetApiUrl(u)
    \/ \E ps \in PageSizes : SetPageSize(ps)
    \/ Unmount
    \/ \E f \in fetches, d \in Payloads : Resolve(f, d)
    \/ \E f \in fetches, msg \in FailureMessages : Reject(f, msg)

Spec == Init /\ [][Next]_vars

TypeOK ==
    /\ apiUrl \in ApiUrls
    /\ pageSize \in PageSizes
    /\ mounted \in BOOLEAN
    /\ activeWindow \in Windows
    /\ alertDismissed \in BOOLEAN
    /\ page \in Nat
    /\ loading \in BOOLEAN
    /\ nextId \in 1..MaxFetches
    /\ \A f \in fetches : f.id \in 1..nextId

\* ---------------------------------------------------------------- expanded rows
\* const isExpanded = expandedPath === ep.path;
isExpanded(ep) == expandedPath = Some(ep.path)

\* The visible rows that render {isExpanded && <LatencyHistogram ep={ep} />};
\* while loading the rows are skeletons.
ExpandedPanels ==
    IF loading THEN {}
    ELSE { i \in 1..Len(visibleEndpoints) : isExpanded(visibleEndpoints[i]) }

\* A payload with two endpoints of one path and different methods: the rows
\* are keyed by `${ep.method}-${ep.path}`.
SharedPathEndpoint == [method |-> "POST", path |-> Endpoint(1).path]
SharedPathPayload ==
    [endpoints |-> << Endpoint(1), SharedPathEndpoint, Endpoint(2) >>, alert |-> Some(AlertText)]
RowsPayloads == { Payload(0, None), SharedPathPayload }

\* The component with a server that answers with the payloads of RowsPayloads.
RowsNext ==
    \/ \E w \in Windows : SelectWindow(w)
    \/ \E p \in 1..totalPages : SelectPage(p)
    \/ PrevPage
    \/ NextPage
    \/ \E i \in 1..Len(visibleEndpoints) : ToggleRow(i)
    \/ DismissAlert
    \/ \E u \in ApiUrls : SetApiUrl(u)
    \/ \E ps \in PageSizes : SetPageSize(ps)
    \/ Unmount
    \/ \E f \in fetches, d \in RowsPayloads : Resolve(f, d)
    \/ \E f \in fetches, msg \in FailureMessages : Reject(f, msg)

RowsSpec == Init /\ [][RowsNext]_vars
\* ---------------------------------------------------------------- numbers
\* A JavaScript number as an exact fraction; a zero denominator stands for
\* NaN and Infinity.
RECURSIVE Gcd(_, _)
Gcd(a, b) == IF b = 0 THEN a ELSE Gcd(b, a % b)
Abs(n) == IF n < 0 THEN -n ELSE n
\* The fraction n/d in lowest terms, with a positive denominator.
Rat(n, d) ==
    IF d = 0 THEN [num |-> n, den |-> 0]
    ELSE LET g == Gcd(Abs(n), Abs(d))
             sgn == IF d < 0 THEN -1 ELSE 1
         IN  [num |-> sgn * (n \div g), den |-> sgn * (d \div g)]
RInt(n) == Rat(n, 1)
RAdd(a, b) == Rat(a.num * b.den + b.num * a.den, a.den * b.den)
RSub(a, b) == Rat(a.num * b.den - b.num * a.den, a.den * b.den)
RMul(a, b) == Rat(a.num * b.num, a.den * b.den)
RDiv(a, b) == Rat(a.num * b.den, a.den * b.num)
REq(a, b) == a.den # 0 /\ b.den # 0 /\ a.num * b.den = b.num * a.den
RLt(a, b) == a.den > 0 /\ b.den > 0 /\ a.num * b.den < b.num * a.den
RLe(a, b) == REq(a, b) \/ RLt(a, b)
RMax(a, b) == IF RLt(a, b) THEN b ELSE a

\* Math.round of a non-negative number
Round(a) == (2 * a.num + a.den) \div (2 * a.den)

\* i % m of JavaScript for i >= 0: NaN (null here) when m is 0
JsMod(i, m) == IF m = 0 THEN None ELSE Some(i % m)

\* ---------------------------------------------------------------- RequestChart
W == 560
H == 160
padL == 20
padB == 20
padT == 10
chartW == W - padL
chartH == H - padB - padT

\* if (!points || points.length < 2)
ShortSeries_LengthZero(points) == points = None \/ Len(points[1]) < 1
ShortSeries(points) == points = None \/ Len(points[1]) < 2

RECURSIVE MaxOf(_, _)
\* Math.max(...values, m)
MaxOf(values, m) ==
    IF values = <<>> THEN m ELSE MaxOf(Tail(values), Max(Head(values), m))

maxVal_NoFloor(pts) ==
    RMul(RInt(MaxOf([i \in 1..Len(pts) |-> Max(pts[i].success, pts[i].error)], 0)), Rat(11, 10))
\* Math.max(...points.map((p) => Math.max(p.success, p.error)), 1) * 1.1
maxVal(pts) ==
    RMul(RInt(MaxOf([i \in 1..Len(pts) |-> Max(pts[i].success, pts[i].error)], 1)), Rat(11, 10))

px_DividesByLength(i, n) == RAdd(RInt(padL), RMul(RDiv(RInt(i), RInt(n)), RInt(chartW)))
\* padL + (i / (points.length - 1)) * chartW, for the index i from 0
px(i, n) == RAdd(RInt(padL), RMul(RDiv(RInt(i), RInt(n - 1)), RInt(chartW)))

\* padT + (1 - v / maxVal) * chartH
py(v, mv) == RAdd(RInt(padT), RMul(RSub(RInt(1), RDiv(RInt(v), mv)), RInt(chartH)))

\* The points of the two polylines, in index order.
successPts(pts) ==
    [k \in 1..Len(pts) |-> [x |-> px(k - 1, Len(pts)), y |-> py(pts[k].success, maxVal(pts))]]
errorPts(pts) ==
    [k \in 1..Len(pts) |-> [x |-> px(k - 1, Len(pts)), y |-> py(pts[k].error, maxVal(pts))]]

\* M first point, L the other points, L to the baseline under the last
\* point, L to the baseline at padL, Z.
successArea(pts) ==
    successPts(pts) \o
    << [x |-> px(Len(pts) - 1, Len(pts)), y |-> RInt(padT + chartH)],
       [x |-> RInt(padL), y |-> RInt(padT + chartH)] >>

gridYFractions == << Rat(0, 1), Rat(33, 100), Rat(67, 100), Rat(1, 1) >>

\* v >= 1000 ? `${Math.round(v / 1000)}k` : `${v}`, for v = Math.round(f * maxVal)
GridLabel(f, mv) ==
    LET v == Round(RMul(f, mv))
    IN  IF v >= 1000 THEN << Round(Rat(v, 1000)), "k" >> ELSE << v >>

\* The grid lines: y = padT + (1 - f) * chartH, and the label
grid(pts) ==
    [k \in 1..Len(gridYFractions) |->
        [y |-> RAdd(RInt(padT), RMul(RSub(RInt(1), gridYFractions[k]), RInt(chartH))),
         text |-> GridLabel(gridYFractions[k], maxVal(pts))]]

\* i === 0 || i === points.length - 1 || i % Math.floor(points.length / 5) === 0
IsLabelIndex(i, n) == i = 0 \/ i = n - 1 \/ JsMod(i, n \div 5) = Some(0)

\* The reduce over the indices 0..n-1, in increasing order.
xLabelIndices(pts) ==
    SelectSeq([k \in 1..Len(pts) |-> k - 1], LAMBDA i : IsLabelIndex(i, Len(pts)))

xLabels(pts) ==
    [k \in 1..Len(xLabelIndices(pts)) |->
        [x |-> px(xLabelIndices(pts)[k], Len(pts)), text |-> pts[xLabelIndices(pts)[k] + 1].hour]]

\* return <svg width="100%" height={H2} viewBox={`0 0 ${W2} ${H2}`} />
EmptyFrame ==
    [threw |-> FALSE, viewBox |-> <<0, 0, W, H>>, maxVal |-> None, grid |-> <<>>,
     area |-> <<>>, success |-> <<>>, error |-> <<>>, labels |-> <<>>, marker |-> None]

\* points.map of undefined, or points[0].success of an empty array, is a TypeError.
ChartThrew ==
    [threw |-> TRUE, viewBox |-> <<>>, maxVal |-> None, grid |-> <<>>,
     area |-> <<>>, success |-> <<>>, error |-> <<>>, labels |-> <<>>, marker |-> None]

\* The chart of a series, past the guard.
ChartOf(points) ==
    IF points = None \/ points = Some(<<>>)
    THEN ChartThrew
    ELSE LET pts == points[1]
         IN  [threw |-> FALSE, viewBox |-> <<0, 0, W, H>>, maxVal |-> Some(maxVal(pts)),
              grid |-> grid(pts), area |-> successArea(pts), success |-> successPts(pts),
              error |-> errorPts(pts), labels |-> xLabels(pts),
              marker |-> Some(successPts(pts)[Len(pts)])]

RequestChart(points) == IF ShortSeries(points) THEN EmptyFrame ELSE ChartOf(points)

\* ---------------------------------------------------------------- Donut, DonutChart
\* Lengths along the circle are in units of pi: r is 28 in Donut and 46 in
\* DonutChart, and circ = 2 * Math.PI * r.
DonutRadius == 28
DonutChartRadius == 46
circ(r) == RInt(2 * r)

\* (s.pct / 100) * circ
dash(s, r) == RMul(RDiv(s.pct, RInt(100)), circ(r))

NextOffset_Stays(offset, d) == offset
\* offset += dash
NextOffset(offset, d) == RAdd(offset, d)

RECURSIVE Arcs(_, _, _)
\* slices.map: one circle per slice, in the order of the array, with
\* strokeDasharray `${dash} ${circ - dash}` and strokeDashoffset -offset.
Arcs(slices, r, offset) ==
    IF slices = <<>> THEN <<>>
    ELSE LET s == Head(slices)
         IN  << [stroke |-> s.color,
                 dash |-> dash(s, r),
                 gap |-> RSub(circ(r), dash(s, r)),
                 dashoffset |-> RSub(RInt(0), offset)] >>
             \o Arcs(Tail(slices), r, NextOffset(offset, dash(s, r)))

\* Number.prototype.toFixed(1) of a non-negative number: the whole part, the
\* point and the one digit after it.
toFixed1(a) ==
    LET tenths == Round(RMul(a, RInt(10)))
    IN  << tenths \div 10, ".", tenths % 10 >>

\* {slices[0]?.pct.toFixed(1)}%: of an empty array the expression is
\* undefined, which renders as nothing, and the % follows.
CenterLabel(slices) ==
    IF slices = <<>> THEN << "%" >> ELSE toFixed1(slices[1].pct) \o << "%" >>

Donut(slices, r) == [arcs |-> Arcs(slices, r, RInt(0)), label |-> CenterLabel(slices)]

\* ---------------------------------------------------------------- LatencyHistogram
BarHeight_NoFloor(b) == RMul(b.pct, RInt(100))
\* height: `${Math.max(b.pct * 100, 2)}%`
BarHeight(b) == RMax(RMul(b.pct, RInt(100)), RInt(2))

BarColor_Inclusive(b) ==
    IF RLe(Rat(7, 10), b.pct) THEN "danger"
    ELSE IF RLe(Rat(4, 10), b.pct) THEN "accent"
    ELSE "accentMid"
\* b.pct > 0.7 ? t.danger : b.pct > 0.4 ? t.accent : t.accentMid
BarColor(b) ==
    IF RLt(Rat(7, 10), b.pct) THEN "danger"
    ELSE IF RLt(Rat(4, 10), b.pct) THEN "accent"
    ELSE "accentMid"

\* {b.pct > 0.15 && <span>{b.count.toLocaleString()}</span>}
BarCount(b) == IF RLt(Rat(15, 100), b.pct) THEN Some(b.count) ELSE None

\* ep.histogram.map: one bar per bucket, with the bucket label under it.
LatencyHistogram(ep) ==
    [k \in 1..Len(ep.histogram) |->
        [height |-> BarHeight(ep.histogram[k]),
         background |-> BarColor(ep.histogram[k]),
         count |-> BarCount(ep.histogram[k]),
         label |-> ep.histogram[k].label]]

\* ---------------------------------------------------------------- pagination
\* The page count and the rows of each page 1..totalPages of the footer, for
\* the endpoints of the payload and the pageSize prop.
Pagination(endpoints, ps) ==
    [totalPages |-> TotalPages(Len(endpoints), ps),
     pages |-> [p \in 1..TotalPages(Len(endpoints), ps) |->
                   Slice(endpoints, (p - 1) * ps, p * ps)]]

\* ---------------------------------------------------------------- rendering of the parts
\* Series the payload may carry: every series of up to MaxShortLen points
\* over a few values, series of up to MaxSeriesLen points, and none.
PointValues == { <<0, 0>>, <<100, 5>>, <<150, 3>> }
ChartPoint(h, v) == [hour |-> h, success |-> v[1], error |-> v[2]]
RECURSIVE SeriesOver(_)
SeriesOver(n) ==
    IF n = 0 THEN { <<>> }
    ELSE { Append(s, ChartPoint(n - 1, v)) : s \in SeriesOver(n - 1), v \in PointValues }
LongSeries(n) == [k \in 1..n |-> ChartPoint(k - 1, <<100 + 10 * k, k>>)]
SeriesInputs ==
    { None } \cup { Some(s) : s \in UNION { SeriesOver(n) : n \in 0..MaxShortLen } }
             \cup { Some(LongSeries(n)) : n \in 0..MaxSeriesLen }

\* Slice lists of up to MaxSlices slices; 94.2 + 5.8, 50 + 50 and
\* 50 + 25 + 25 are the lists of sum 100.
SliceValues ==
    { [pct |-> Rat(942, 10), color |-> "green"], [pct |-> Rat(58, 10), color |-> "red"],
      [pct |-> RInt(50), color |-> "amber"], [pct |-> RInt(25), color |-> "blue"],
      [pct |-> RInt(0), color |-> "grey"] }
RECURSIVE SlicesOver(_)
SlicesOver(n) ==
    IF n = 0 THEN { <<>> }
    ELSE { Append(s, v) : s \in SlicesOver(n - 1), v \in SliceValues }
SliceInputs == UNION { SlicesOver(n) : n \in 0..MaxSlices }

\* Histograms of up to MaxBuckets buckets, pct from 0 to 1 on both sides of
\* 0.02, 0.15, 0.4 and 0.7.
BucketPcts ==
    { Rat(0, 1), Rat(5, 1000), Rat(2, 100), Rat(15, 100), Rat(16, 100),
      Rat(4, 10), Rat(41, 100), Rat(7, 10), Rat(71, 100), Rat(1, 1) }
RECURSIVE BucketsOver(_)
BucketsOver(n) ==
    IF n = 0 THEN { <<>> }
    ELSE { Append(s, [label |-> n, count |-> 4100 * n, pct |-> v]) :
               s \in BucketsOver(n - 1), v \in BucketPcts }
HistogramInputs == { [histogram |-> h] : h \in UNION { BucketsOver(n) : n \in 0..MaxBuckets } }

\* Endpoint lists of up to MaxCount rows with a pageSize of up to MaxPageSize.
PaginationInputs ==
    { [endpoints |-> [i \in 1..n |-> Endpoint(i)], pageSize |-> ps] :
          n \in 0..MaxCount, ps \in 1..MaxPageSize }

WidgetInputs ==
    { [kind |-> "chart", arg |-> a] : a \in SeriesInputs }
    \cup { [kind |-> "Donut", arg |-> a] : a \in SliceInputs }
    \cup { [kind |-> "DonutChart", arg |-> a] : a \in SliceInputs }
    \cup { [kind |-> "histogram", arg |-> a] : a \in HistogramInputs }
    \cup { [kind |-> "pagination", arg |-> a] : a \in PaginationInputs }

\* One part of the page with its props, before its first render; the
\* dashboard around it is as mounted.
PartInit ==
    /\ AfterMount
    /\ pageSize = DefaultPageSize
    /\ widget \in WidgetInputs
    /\ drawn = None

\* <RequestChart points={data.chartPoints} />
RenderRequestChart ==
    /\ widget.kind = "chart"
    /\ drawn = None
    /\ drawn' = Some(RequestChart(widget.arg))
    /\ UNCHANGED <<apiUrl, pageSize, mounted, activeWindow, alertDismissed, page, expandedPath,
                   data, loading, error, fetches, requested, nextId, dataSrc, atStart,
                   settledAs, widget, lastEv>>

\* <Donut slices={data.statusBreakdown} />
RenderDonut ==
    /\ widget.kind = "Donut"
    /\ drawn = None
    /\ drawn' = Some(Donut(widget.arg, DonutRadius))
    /\ UNCHANGED <<apiUrl, pageSize, mounted, activeWindow, alertDismissed, page, expandedPath,
                   data, loading, error, fetches, requested, nextId, dataSrc, atStart,
                   settledAs, widget, lastEv>>

\* <DonutChart slices={data.statusCodeBreakdown} />
RenderDonutChart ==
    /\ widget.kind = "DonutChart"
    /\ drawn = None
    /\ drawn' = Some(Donut(widget.arg, DonutChartRadius))
    /\ UNCHANGED <<apiUrl, pageSize, mounted, activeWindow, alertDismissed, page, expandedPath,
                   data, loading, error, fetches, requested, nextId, dataSrc, atStart,
                   settledAs, widget, lastEv>>

\* {isExpanded && <LatencyHistogram ep={ep} />}
RenderLatencyHistogram ==
    /\ widget.kind = "histogram"
    /\ drawn = None
    /\ drawn' = Some(LatencyHistogram(widget.arg))
    /\ UNCHANGED <<apiUrl, pageSize, mounted, activeWindow, alertDismissed, page, expandedPath,
                   data, loading, error, fetches, requested, nextId, dataSrc, atStart,
                   settledAs, widget, lastEv>>

\* The render of the table footer: endpoints, totalPages, visibleEndpoints.
RenderPagination ==
    /\ widget.kind = "pagination"
    /\ drawn = None
    /\ drawn' = Some(Pagination(widget.arg.endpoints, widget.arg.pageSize))
    /\ UNCHANGED <<apiUrl, pageSize, mounted, activeWindow, alertDismissed, page, expandedPath,
                   data, loading, error, fetches, requested, nextId, dataSrc, atStart,
                   settledAs, widget, lastEv>>

PartNext ==
    \/ RenderRequestChart
    \/ RenderDonut
    \/ RenderDonutChart
    \/ RenderLatencyHistogram
    \/ RenderPagination

PartSpec == PartInit /\ [][PartNext]_vars

\* ---------------------------------------------------------------- properties
Clamp(p, lo, hi) == Max(lo, Min(p, hi))

\* The request f settles in this step, either way.
SettleOf(f) ==
    \/ \E d \in Payloads : Resolve(f, d)
    \/ \E msg \in FailureMessages : Reject(f, msg)

\* The URL the documentation promises for the current props and window.
ExpectedUrl == <<apiUrl, "?window=">> \o activeWindow

\* The keys of the rows that can be clicked, and of all rows of the payload.
RowKeys ==
    IF mounted /\ ~loading
    THEN { visibleEndpoints[i].path : i \in 1..Len(visibleEndpoints) }
    ELSE {}
DataKeys == { Endpoints(data)[i].path : i \in 1..Len(Endpoints(data)) }

\* C1: when a request is superseded by a later one, its late resolution or
\* rejection changes none of data, error and loading; when the latest request
\* resolves, data becomes its payload, and stays the payload of the latest
\* request whatever settles afterwards.
C1_LastStartedWins ==
    /\ [][\A f \in fetches :
            (f.id < nextId /\ SettleOf(f)) => UNCHANGED <<data, error, loading>>]_vars
    /\ [][\A f \in fetches, d \in Payloads :
            (mounted /\ f.id = nextId /\ Resolve(f, d)) => data' = Some(d)]_vars
    /\ [](mounted /\ settledAs = "resolved" => dataSrc = nextId /\ data # None)

\* A superseded request has settled after the latest one resolved.
C1_Witness ==
    /\ mounted
    /\ nextId > 1
    /\ lastEv.kind \in { "resolve", "reject" }
    /\ ~lastEv.acted
    /\ settledAs = "resolved"
    /\ dataSrc = nextId

\* C2 as stated: after every click on a window button, whatever the window,
\* currentPage is 1 and alertDismissed is false.
C2_Original ==
    lastEv.kind = "selectWindow" => page = 1 /\ alertDismissed = FALSE

\* C2 as amended: a click on a window other than the active one leaves
\* currentPage = 1 and alertDismissed = false; a click on the active window
\* leaves both as they were.
C2_ResetOnWindowChange ==
    [][\A w \in Windows :
         SelectWindow(w) =>
           IF w # activeWindow
           THEN page' = 1 /\ alertDismissed' = FALSE
           ELSE page' = page /\ alertDismissed' = alertDismissed]_vars

\* Another window was selected on a later page with the alert dismissed.
C2_Witness ==
    /\ lastEv.kind = "selectWindow"
    /\ lastEv.acted
    /\ lastEv.dirty
    /\ page = 1
    /\ alertDismissed = FALSE

\* C3: in every state of the mounted component 1 <= currentPage <= totalPages,
\* with totalPages computed from the endpoints held and the current pageSize.
C3_PageInRange ==
    mounted => 1 <= page /\ page <= totalPages

\* C4: every page-selection event (numbered button p, previous = page - 1,
\* next = page + 1) sets currentPage to the requested page clamped to
\* 1..totalPages.
C4_PageClamped ==
    [][/\ \A p \in 1..totalPages : SelectPage(p) => page' = Clamp(p, 1, totalPages)
       /\ PrevPage => page' = Clamp(page - 1, 1, totalPages)
       /\ NextPage => page' = Clamp(page + 1, 1, totalPages)]_vars

\* C5 as stated: whatever row is expanded, toggling a clickable row X twice
\* restores expandedRowKey, and toggling X and then another row Y leaves Y.
C5_Original ==
    \A X \in RowKeys :
        /\ toggleExpand(toggleExpand(expandedPath, X), X) = expandedPath
        /\ \A Y \in DataKeys \ {X} :
               toggleExpand(toggleExpand(expandedPath, X), Y) = Some(Y)

\* C5 as amended: toggling X twice restores expandedRowKey when it was none or
\* X, and leaves none when another row was expanded; toggling X and then
\* another row Y leaves Y.
C5_TogglePairs ==
    \A X \in RowKeys :
        /\ expandedPath \in { None, Some(X) } =>
               toggleExpand(toggleExpand(expandedPath, X), X) = expandedPath
        /\ expandedPath \notin { None, Some(X) } =>
               toggleExpand(toggleExpand(expandedPath, X), X) = None
        /\ \A Y \in DataKeys \ {X} :
               toggleExpand(toggleExpand(expandedPath, X), Y) = Some(Y)

\* A row was toggled and is expanded while another row can be clicked.
C5_Witness ==
    /\ lastEv.kind = "toggleRow"
    /\ expandedPath # None
    /\ \E X \in RowKeys : expandedPath # Some(X)

\* C6: when the latest request fails, error becomes the failure message,
\* loading becomes false and data is the value it had when the request was
\* issued.
C6_FailureKeepsData ==
    [][\A f \in fetches, msg \in FailureMessages :
         (mounted /\ f.id = nextId /\ Reject(f, msg)) =>
           /\ error' = Some(msg)
           /\ loading' = FALSE
           /\ data' = atStart.data
           /\ data' = data]_vars

\* The latest request failed while a payload was held.
C6_Witness ==
    /\ mounted
    /\ lastEv.kind = "reject"
    /\ lastEv.acted
    /\ data # None
    /\ data = atStart.data
    /\ error # None
    /\ ~loading

\* C7: when the latest request succeeds, data is its payload, error is null
\* (also when an error was shown before the request) and loading is false.
C7_SuccessClearsError ==
    [][\A f \in fetches, d \in Payloads :
         (mounted /\ f.id = nextId /\ Resolve(f, d)) =>
           /\ data' = Some(d)
           /\ error' = None
           /\ loading' = FALSE]_vars

\* The latest request succeeded and an error was shown when it was issued.
C7_Witness ==
    /\ mounted
    /\ lastEv.kind = "resolve"
    /\ lastEv.acted
    /\ atStart.failed
    /\ error = None
    /\ ~loading

\* C8 as stated: every click on a window button issues exactly one request,
\* and every request issued is for apiUrl?window=<active window>.
C8_Original ==
    /\ [][\A w \in Windows :
            SelectWindow(w) => nextId' = nextId + 1 /\ Cardinality(fetches') = Cardinality(fetches) + 1]_vars
    /\ [](requested = ExpectedUrl)

\* C8 as amended: a click on a window other than the active one issues exactly
\* one request and a click on the active window issues none; every request
\* issued is for apiUrl?window=<active window when it is issued>.
C8_FetchPerWindowChange ==
    /\ [][\A w \in Windows :
            SelectWindow(w) =>
              IF w # activeWindow
              THEN /\ nextId' = nextId + 1
                   /\ Cardinality(fetches') = Cardinality(fetches) + 1
                   /\ \E f \in fetches' : f.id = nextId' /\ ~f.cancelled
              ELSE nextId' = nextId /\ fetches' = fetches]_vars
    /\ [][nextId' # nextId => requested' = <<apiUrl', "?window=">> \o activeWindow']_vars
    /\ [](requested = ExpectedUrl)

\* Another window was selected and its request is in flight.
C8_Witness ==
    /\ lastEv.kind = "selectWindow"
    /\ lastEv.acted
    /\ activeWindow # InitialWindow
    /\ nextId > 1
    /\ \E f \in fetches : f.id = nextId

C10_OnlyToggleChangesRow ==
    /\ [][\A w \in Windows : SelectWindow(w) => expandedPath' = expandedPath]_vars
    /\ [][(nextId' # nextId \/ \E f \in fetches : SettleOf(f)) => expandedPath' = expandedPath]_vars
    /\ [][expandedPath' # expandedPath => \E i \in 1..Len(visibleEndpoints) : ToggleRow(i)]_vars

\* Another window was selected while a row was expanded.
C10_Witness ==
    /\ lastEv.kind = "selectWindow"
    /\ lastEv.acted
    /\ expandedPath # None

\* The latest request is still in flight.
LatestInFlight == \E f \in fetches : f.id = nextId

\* C11: while the latest request has not settled, loading is true in every
\* state, whatever else happens; the step in which it settles sets loading to
\* false, and loading stays false as long as no newer request is issued.
C11_LoadingFollowsLatest ==
    /\ [](LatestInFlight => loading)
    /\ [][\A f \in fetches : (mounted /\ f.id = nextId /\ SettleOf(f)) => loading' = FALSE]_vars
    /\ [](mounted /\ settledAs # "pending" => ~loading)

\* A superseded request has settled while the latest one is in flight.
C11_Witness ==
    /\ mounted
    /\ lastEv.kind \in { "resolve", "reject" }
    /\ ~lastEv.acted
    /\ LatestInFlight
    /\ loading

\* C12: on mount activeWindow is 24h, currentPage 1, no row is expanded,
\* alertDismissed is false, loading is true, data and error are null, and the
\* one request issued is for apiUrl?window=24h.
C12_MountDefaults ==
    lastEv.kind = "mount" =>
        /\ activeWindow = <<"2", "4", "h">>
        /\ page = 1
        /\ expandedPath = None
        /\ alertDismissed = FALSE
        /\ loading = TRUE
        /\ data = None
        /\ error = None
        /\ fetches = { [id |-> 1, cancelled |-> FALSE] }
        /\ requested = <<apiUrl, "?window=", "2", "4", "h">>

\* The component has just been mounted and its first request is in flight.
C12_Witness ==
    /\ lastEv.kind = "mount"
    /\ mounted
    /\ nextId = 1
    /\ LatestInFlight

\* The values of ?window= the reference tells the endpoint to handle.
DocumentedWindows == { <<"1", "h">>, <<"2", "4", "h">>, <<"7", "d">>, <<"3", "0", "d">> }

\* C14: the window of every request the component sends is one of 1h, 24h, 7d
\* and 30d.
C14_DocumentedWindowsOnly ==
    \E w \in DocumentedWindows : requested = <<apiUrl, "?window=">> \o w

\* C13: for n >= 0 endpoints and a positive pageSize, totalPages is
\* max(1, ceil(n / pageSize)): the least count of pages of pageSize rows that
\* hold n rows, and at least 1; it is 1 for n = 0 and 3 for n = 18, pageSize 7.
C13_TotalPages ==
    (widget.kind = "pagination" /\ drawn # None) =>
        LET n == Len(widget.arg.endpoints)
            ps == widget.arg.pageSize
            tp == drawn[1].totalPages
        IN  /\ tp >= 1
            /\ tp * ps >= n
            /\ tp > 1 => (tp - 1) * ps < n
            /\ n = 0 => tp = 1
            /\ (n = 18 /\ ps = 7) => tp = 3

\* The footer of 18 endpoints at 7 a page has been rendered.
C13_Witness ==
    /\ widget.kind = "pagination"
    /\ drawn # None
    /\ Len(widget.arg.endpoints) = 18
    /\ widget.arg.pageSize = 7
    /\ drawn[1].totalPages = 3

\* The chart has rendered the series of n points.
ChartDrawn == widget.kind = "chart" /\ drawn # None
SeriesLen == IF widget.arg = None THEN 0 ELSE Len(widget.arg[1])

\* C15: for a series of length 0 or 1, and for a missing series, the chart is
\* the empty frame of 560 by 160 with no grid, path, polyline, label or
\* marker, and nothing is thrown.
C15_ShortSeriesEmptyFrame ==
    (ChartDrawn /\ SeriesLen < 2) =>
        /\ drawn[1].threw = FALSE
        /\ drawn[1].viewBox = <<0, 0, 560, 160>>
        /\ drawn[1].area = <<>>
        /\ drawn[1].success = <<>>
        /\ drawn[1].error = <<>>
        /\ drawn[1].labels = <<>>
        /\ drawn[1].grid = <<>>
        /\ drawn[1].marker = None

\* The chart has rendered a series of exactly one point.
C15_Witness ==
    /\ ChartDrawn
    /\ widget.arg # None
    /\ SeriesLen = 1
    /\ drawn[1].threw = FALSE

\* C16: for a series of n >= 2 points the first x-position is padL, the last
\* is padL + chartW, and the x-positions increase strictly with the index.
C16_XPositions ==
    (ChartDrawn /\ SeriesLen >= 2) =>
        LET xs == [k \in 1..SeriesLen |-> drawn[1].success[k].x]
        IN  /\ Len(drawn[1].success) = SeriesLen
            /\ REq(xs[1], RInt(20))
            /\ REq(xs[SeriesLen], RInt(20 + 540))
            /\ \A k \in 1..(SeriesLen - 1) : RLt(xs[k], xs[k + 1])
            /\ \A k \in 1..SeriesLen : REq(drawn[1].error[k].x, xs[k])

\* The chart has rendered a series with inner points.
C16_Witness ==
    /\ ChartDrawn
    /\ SeriesLen >= 3
    /\ Len(drawn[1].success) = SeriesLen

\* A donut of either component has rendered its slices.
DonutDrawn == widget.kind \in { "Donut", "DonutChart" } /\ drawn # None
Circumference == RInt(2 * (IF widget.kind = "Donut" THEN 28 ELSE 46))
RECURSIVE RSum(_)
RSum(q) == IF q = <<>> THEN RInt(0) ELSE RAdd(Head(q), RSum(Tail(q)))

\* C17: there is one arc per slice, in input order; arc i is
\* (pct_i / 100) * circumference long and starts where the arcs before it
\* end; when the percentages sum to 100 the lengths sum to the circumference.
C17_ArcsInOrder ==
    DonutDrawn =>
        LET slices == widget.arg
            arcs == drawn[1].arcs
            lengths == [i \in 1..Len(arcs) |-> arcs[i].dash]
            pcts == [i \in 1..Len(slices) |-> slices[i].pct]
        IN  /\ Len(arcs) = Len(slices)
            /\ \A i \in 1..Len(arcs) :
                   /\ arcs[i].stroke = slices[i].color
                   /\ REq(RMul(lengths[i], RInt(100)), RMul(pcts[i], Circumference))
                   /\ REq(RSub(RInt(0), arcs[i].dashoffset), RSum(SubSeq(lengths, 1, i - 1)))
            /\ REq(RSum(pcts), RInt(100)) => REq(RSum(lengths), Circumference)

\* A donut of three slices of sum 100, not in order of size, has been rendered.
C17_Witness ==
    /\ DonutDrawn
    /\ Len(widget.arg) = 3
    /\ REq(RSum([i \in 1..3 |-> widget.arg[i].pct]), RInt(100))
    /\ RLt(widget.arg[1].pct, widget.arg[2].pct)
    /\ Len(drawn[1].arcs) = 3

\* C18: the height of every bar, as a fraction of the track, is
\* max(relativeHeight, 0.02), so it is at least 0.02, also for a bucket of
\* relativeHeight 0.
C18_BarFloor ==
    (widget.kind = "histogram" /\ drawn # None) =>
        LET buckets == widget.arg.histogram
        IN  /\ Len(drawn[1]) = Len(buckets)
            /\ \A k \in 1..Len(buckets) :
                   LET fraction == RDiv(drawn[1][k].height, RInt(100))
                   IN  /\ REq(fraction, IF RLt(buckets[k].pct, Rat(2, 100))
                                         THEN Rat(2, 100) ELSE buckets[k].pct)
                       /\ RLe(Rat(2, 100), fraction)

\* A histogram with a bucket of relativeHeight 0 has been rendered.
C18_Witness ==
    /\ widget.kind = "histogram"
    /\ drawn # None
    /\ \E k \in 1..Len(widget.arg.histogram) :
           /\ REq(widget.arg.histogram[k].pct, RInt(0))
           /\ REq(drawn[1][k].height, RInt(2))

\* The largest of the success and error values of the series.
SeriesValues == UNION { { widget.arg[1][k].success, widget.arg[1][k].error } : k \in 1..SeriesLen }
SeriesMax == CHOOSE m \in SeriesValues : \A v \in SeriesValues : v <= m

\* C19 as stated: for n >= 2, maxValue is the largest value times 1.1, and 1
\* when that is below 1.
C19_Original ==
    (ChartDrawn /\ SeriesLen >= 2) =>
        REq(drawn[1].maxVal[1], RMax(RMul(RInt(SeriesMax), Rat(11, 10)), RInt(1)))

\* C19 as amended: for n >= 2, maxValue is 1.1 times the larger of the
\* largest value and 1, so it is at least 1.1; for (100,5),(150,3) it is 165.
C19_MaxValue ==
    (ChartDrawn /\ SeriesLen >= 2) =>
        /\ REq(drawn[1].maxVal[1], RMul(RInt(IF SeriesMax < 1 THEN 1 ELSE SeriesMax), Rat(11, 10)))
        /\ RLe(Rat(11, 10), drawn[1].maxVal[1])
        /\ widget.arg[1] = << ChartPoint(0, <<100, 5>>), ChartPoint(1, <<150, 3>>) >>
               => REq(drawn[1].maxVal[1], RInt(165))

\* The chart has rendered a series whose values are all 0.
C19_Witness ==
    /\ ChartDrawn
    /\ SeriesLen >= 2
    /\ SeriesMax = 0
    /\ drawn[1].maxVal # None

\* C20: for n >= 2 the labelled indices are exactly 0, n-1 and the multiples
\* of N = max(1, floor(n/5)).
C20_LabelIndices ==
    (ChartDrawn /\ SeriesLen >= 2) =>
        LET n == SeriesLen
            N == Max(1, n \div 5)
        IN  { k \in 1..n : \E l \in 1..Len(drawn[1].labels) :
                              REq(drawn[1].labels[l].x, drawn[1].success[k].x) }
            = { k \in 1..n : k - 1 = 0 \/ k - 1 = n - 1 \/ (k - 1) % N = 0 }

\* A click on a page button, on a row or on the × of the alert banner.
ViewClick ==
    \/ \E p \in 1..totalPages : SelectPage(p)
    \/ \E i \in 1..Len(visibleEndpoints) : ToggleRow(i)
    \/ DismissAlert

\* C21: selectPage, toggleRow and dismissAlert start no request and leave
\* data, error, loading and activeWindow as they are; dismissAlert sets
\* alertDismissed and changes nothing else; alertDismissed goes back to false
\* only in a step that changes activeWindow.
C21_ViewEventsFrame ==
    /\ [][ViewClick => UNCHANGED <<data, error, loading, activeWindow,
                                   fetches, requested, nextId>>]_vars
    /\ [][DismissAlert => /\ alertDismissed' = TRUE
                          /\ UNCHANGED <<page, expandedPath, apiUrl, pageSize, mounted>>]_vars
    /\ [][(alertDismissed /\ ~alertDismissed') => activeWindow' # activeWindow]_vars

\* The alert has just been dismissed on page 2 with a row expanded.
C21_Witness ==
    /\ lastEv.kind = "dismissAlert"
    /\ alertDismissed
    /\ page > 1
    /\ expandedPath # None
    /\ data # None

\* C22: for an empty slice list the donut has no arcs and an empty center
\* label; for a non-empty list the center label is the percentage of slice 0
\* to one decimal, followed by %.
C22_CenterLabel ==
    DonutDrawn =>
        /\ widget.arg = <<>> => (drawn[1].arcs = <<>> /\ drawn[1].label = <<>>)
        /\ widget.arg # <<>> => drawn[1].label = toFixed1(widget.arg[1].pct) \o << "%" >>

\* C23: the bar of a bucket is danger when relativeHeight > 0.7, accent when
\* 0.4 < relativeHeight <= 0.7 and accentMid when relativeHeight <= 0.4, so
\* exactly 0.7 is accent and exactly 0.4 is accentMid.
C23_BarColour ==
    (widget.kind = "histogram" /\ drawn # None) =>
        \A k \in 1..Len(widget.arg.histogram) :
            LET h == widget.arg.histogram[k].pct
                colour == drawn[1][k].background
            IN  /\ RLt(Rat(7, 10), h) => colour = "danger"
                /\ (RLt(Rat(4, 10), h) /\ RLe(h, Rat(7, 10))) => colour = "accent"
                /\ RLe(h, Rat(4, 10)) => colour = "accentMid"
                /\ REq(h, Rat(7, 10)) => colour = "accent"
                /\ REq(h, Rat(4, 10)) => colour = "accentMid"

\* A histogram with a bucket at exactly 0.7 and one at exactly 0.4 has been
\* rendered.
C23_Witness ==
    /\ widget.kind = "histogram"
    /\ drawn # None
    /\ \E k, l \in 1..Len(widget.arg.histogram) :
           /\ REq(widget.arg.histogram[k].pct, Rat(7, 10))
           /\ REq(widget.arg.histogram[l].pct, Rat(4, 10))
           /\ drawn[1][k].background = "accent"
           /\ drawn[1][l].background = "accentMid"

\* C24: loading is false only when the request started last has completed;
\* when a superseded request completes while a later one is in flight,
\* loading stays true.
C24_LoadingFalseOnlyAfterLatest ==
    /\ [](~loading => (settledAs \in { "resolved", "rejected" }
                       /\ \A f \in fetches : f.id < nextId))
    /\ [][\A f \in fetches :
            (f.id < nextId /\ SettleOf(f) /\ \E g \in fetches : g.id = nextId)
                => loading' = TRUE]_vars

\* The latest request has failed and loading is off while a superseded
\* request is still in flight.
C24_Witness ==
    /\ mounted
    /\ ~loading
    /\ nextId > 1
    /\ settledAs = "rejected"
    /\ fetches # {}

BackAtFirstSlot ==
    /\ nextId >= 3
    /\ apiUrl = InitialApiUrl
    /\ activeWindow = InitialWindow
    /\ \E f \in fetches : f.id = 1

\* C26: staleness goes by start order: after A, B, A with the first request
\* for A in flight, the late completion of that first request changes
\* nothing although its window is the active one, and the result that is
\* applied is that of the request started last.
C26_StartOrderNotWindow ==
    /\ [][\A f \in fetches :
            (BackAtFirstSlot /\ f.id = 1 /\ SettleOf(f))
                => UNCHANGED <<data, error, loading, dataSrc>>]_vars
    /\ [][\A f \in fetches, d \in Payloads :
            (BackAtFirstSlot /\ mounted /\ f.id = nextId /\ Resolve(f, d))
                => (data' = Some(d) /\ dataSrc' = nextId)]_vars
    /\ [](BackAtFirstSlot => dataSrc # 1)

\* The first request has resolved late, after A, B, A, while the second and
\* the third are still in flight.
C26_Witness ==
    /\ mounted
    /\ nextId = 3
    /\ apiUrl = InitialApiUrl
    /\ activeWindow = InitialWindow
    /\ requested = RequestUrl(InitialApiUrl, InitialWindow)
    /\ { f.id : f \in fetches } = { 2, 3 }
    /\ lastEv.kind = "resolve"
    /\ ~lastEv.acted
    /\ loading
    /\ data = None

\* A change of activeWindow or of apiUrl.
SlotChange ==
    \/ \E w \in Windows : w # activeWindow /\ SelectWindow(w)
    \/ \E u \in ApiUrls : SetApiUrl(u)

\* C27: the start of a request, on the mount and on every change of apiUrl or
\* activeWindow, sets loading to true and error to null and leaves data as it
\* is, so the payload held before stays held while the request is in flight.
C27_StartKeepsData ==
    /\ [](lastEv.kind = "mount" => (nextId = 1 /\ loading /\ error = None /\ data = None))
    /\ [][SlotChange => nextId' = nextId + 1]_vars
    /\ [][nextId' # nextId => (loading' = TRUE /\ error' = None /\ data' = data)]_vars

\* A request has just been started while a payload was held and the request
\* before it had failed.
C27_Witness ==
    /\ lastEv.kind \in { "selectWindow", "setApiUrl" }
    /\ lastEv.acted
    /\ loading
    /\ error = None
    /\ data # None
    /\ atStart.failed
    /\ atStart.data = data

RECURSIVE Concat(_)
Concat(q) == IF q = <<>> THEN <<>> ELSE Head(q) \o Concat(Tail(q))

\* C28: the rows of the pages 1..totalPages, one page after the other, are
\* the endpoint list: every endpoint is on exactly one page, no page has more
\* than pageSize rows, and no page is empty unless the list is.
C28_PagesPartition ==
    (widget.kind = "pagination" /\ drawn # None) =>
        LET eps == widget.arg.endpoints
            pages == drawn[1].pages
        IN  /\ Len(pages) = drawn[1].totalPages
            /\ Concat(pages) = eps
            /\ \A i \in 1..Len(eps) :
                   Cardinality({ p \in 1..Len(pages) :
                                   \E k \in 1..Len(pages[p]) : pages[p][k] = eps[i] }) = 1
            /\ \A p \in 1..Len(pages) : Len(pages[p]) <= widget.arg.pageSize
            /\ eps # <<>> => \A p \in 1..Len(pages) : pages[p] # <<>>

\* 18 endpoints at 7 a page have been laid out with a last page of 4 rows.
C28_Witness ==
    /\ widget.kind = "pagination"
    /\ drawn # None
    /\ Len(widget.arg.endpoints) = 18
    /\ widget.arg.pageSize = 7
    /\ Len(drawn[1].pages) = 3
    /\ Len(drawn[1].pages[3]) = 4

\* C29: in every reachable state at most one of the visible rows renders its
\* expanded panel, whatever endpoints the payload lists, endpoints of one
\* path and different methods included.
C29_AtMostOnePanel == Cardinality(ExpandedPanels) <= 1

\* C30: after the unmount, the completion of a request that was in flight,
\* with a payload or with a failure, changes none of data, error and loading.
C30_UnmountedFrozen ==
    [][\A f \in fetches :
          (~mounted /\ SettleOf(f)) => UNCHANGED <<data, error, loading>>]_vars

\* The latest request has completed after the unmount, and loading is still
\* as the unmount left it.
C30_Witness ==
    /\ ~mounted
    /\ lastEv.kind \in { "resolve", "reject" }
    /\ settledAs # "pending"
    /\ loading
====
